---- MODULE Spec2Model ----
(***************************************************************************)
(* Model of lava-model.py: the pydantic/firestore BaseModel.  One record   *)
(* type with the mandatory field id and one declared string field, name,   *)
(* stands for a subclass of BaseModel; the firestore collection is the     *)
(* variable store.                                                         *)
(***************************************************************************)
EXTENDS Naturals, Sequences, FiniteSets

VARIABLES store, call, ret, validated, gen, stream, pulled

vars == <<store, call, ret, validated, gen, stream, pulled>>

\* Longest list or generator a data-access function returns in the model.
MaxLen == 3

\* Document ids of the collection, in the order a query lists them.
IdOrder == <<"a", "b">>

Ids == {IdOrder[i] : i \in 1..Len(IdOrder)}

\* Python strings a field may hold.
StrVals == {"v1", "v2"}

\* A stored value that is a str.
StrVal(s) == [t |-> "str", v |-> s]

\* Stored firestore values: strings, and a map value that is no str.
Values == {StrVal(s) : s \in StrVals} \cup {[t |-> "map", v |-> "v1"]}

\* dict access: a mapping is a set of <<key, value>> pairs with distinct keys.
Has(m, k) == \E p \in m : p[1] = k

Get(m, k) == (CHOOSE p \in m : p[1] = k)[2]

\* Contents a firestore document may have: the declared field with a str or a
\* non-str value, and a payload that also carries an id key.
Mappings ==
    {{<<"name", v>>} : v \in Values}
        \cup {{<<"id", StrVal("b")>>, <<"name", StrVal("v1")>>}}

\* A document of the collection: missing, or present with its mapping.
DocStates == {[exists |-> FALSE, data |-> {}]} \cup {[exists |-> TRUE, data |-> m] : m \in Mappings}

\* collection.document(id).get(): the snapshot of a document.
Snapshot(s, id) == [id |-> id, exists |-> s[id].exists, data |-> s[id].data]

\* Typed records (instances of the model class).
Records == [id : Ids, name : StrVals]

\* Outcomes of a call.
Rec(r) == [kind |-> "record", rec |-> r]

Err(e) == [kind |-> "error", error |-> e]

NoneRet == [kind |-> "none"]

ListRet(rs) == [kind |-> "list", recs |-> rs]

StreamRet == [kind |-> "stream"]

\* cls(id=id, **_dict) with id taken from the payload when it has one.
from_dict_payload_id(id, dict) ==
    IF ~Has(dict, "name") \/ Get(dict, "name").t # "str"
    THEN Err("ValidationError")
    ELSE Rec([id |-> IF Has(dict, "id") THEN Get(dict, "id").v ELSE id,
              name |-> Get(dict, "name").v])

\* from_dict: cls(id=id, **_dict).  A payload with an id key passes id twice
\* (TypeError); otherwise pydantic validates the declared field.
from_dict(id, dict) ==
    IF Has(dict, "id")
    THEN Err("TypeError")
    ELSE IF ~Has(dict, "name") \/ Get(dict, "name").t # "str"
         THEN Err("ValidationError")
         ELSE Rec([id |-> id, name |-> Get(dict, "name").v])

\* get_from_firestore_document: from_dict(doc.id, doc.to_dict()); to_dict() of
\* a snapshot of a missing document is None, and ** of None is a TypeError.
get_from_firestore_document(doc) ==
    IF ~doc.exists THEN Err("TypeError") ELSE from_dict(doc.id, doc.data)

RECURSIVE ConvertAll(_, _, _)
\* The list comprehension of get_from_firestore_documents: converts in order,
\* the first exception ends it.  seen: the documents handed to the converter.
ConvertAll(docs, acc, seen) ==
    IF docs = <<>>
    THEN [ret |-> ListRet(acc), validated |-> seen]
    ELSE LET r == get_from_firestore_document(Head(docs))
         IN  IF r.kind = "error"
             THEN [ret |-> r, validated |-> Append(seen, Head(docs))]
             ELSE ConvertAll(Tail(docs), Append(acc, r.rec), Append(seen, Head(docs)))

RECURSIVE ConvertSkipping(_, _, _)
\* A comprehension that drops the documents that do not convert.
ConvertSkipping(docs, acc, seen) ==
    IF docs = <<>>
    THEN [ret |-> ListRet(acc), validated |-> seen]
    ELSE LET r == get_from_firestore_document(Head(docs))
         IN  ConvertSkipping(Tail(docs),
                             IF r.kind = "error" THEN acc ELSE Append(acc, r.rec),
                             Append(seen, Head(docs)))

get_from_firestore_documents_partial(docs) == ConvertSkipping(docs, <<>>, <<>>)

get_from_firestore_documents(docs) == ConvertAll(docs, <<>>, <<>>)

\* What a call does besides returning: the documents it handed to the
\* converter, what is left in the source iterator, and the lazy sequence.
Eff(r, v, g, s) == [ret |-> r, validated |-> v, gen |-> g, stream |-> s]

\* A list built at once instead of a generator expression.
stream_from_firestore_documents_eager(docs) ==
    LET c == ConvertAll(docs, <<>>, <<>>)
    IN  Eff(IF c.ret.kind = "error" THEN c.ret ELSE StreamRet, c.validated, docs, "open")

\* stream_from_firestore_documents: a generator expression over docs; nothing
\* is converted until the generator is advanced.
stream_from_firestore_documents(docs) == Eff(StreamRet, <<>>, docs, "open")

\* get_by_id: the snapshot of collection.document(id); None unless it exists.
get_by_id(s, id) ==
    LET doc == Snapshot(s, id)
    IN  IF doc.exists
        THEN Eff(get_from_firestore_document(doc), <<doc>>, <<>>, "none")
        ELSE Eff(NoneRet, <<>>, <<>>, "none")

\* lavaify's first test: a callable argument is the bare decorator, which
\* wraps with the default False.
LavaifyArgs == {"False", "True", "callable"}

lavaify(enforce_one_or_none) ==
    IF enforce_one_or_none = "callable" THEN FALSE ELSE enforce_one_or_none = "True"

\* A branch that turns a value of no recognised type into None.
func_plain_silent(val) ==
    IF val.shape = "list"
    THEN LET c == get_from_firestore_documents(val.items)
         IN  Eff(c.ret, c.validated, <<>>, "none")
    ELSE IF val.shape = "generator"
    THEN stream_from_firestore_documents(val.items)
    ELSE IF val.shape = "document"
    THEN Eff(get_from_firestore_document(val.items[1]), <<val.items[1]>>, <<>>, "none")
    ELSE Eff(NoneRet, <<>>, <<>>, "none")

\* func with enforce_one_or_none false: the isinstance chain on f()'s value.
func_plain(val) ==
    IF val.shape = "list"
    THEN LET c == get_from_firestore_documents(val.items)
         IN  Eff(c.ret, c.validated, <<>>, "none")
    ELSE IF val.shape = "generator"
    THEN stream_from_firestore_documents(val.items)
    ELSE IF val.shape = "document"
    THEN Eff(get_from_firestore_document(val.items[1]), <<val.items[1]>>, <<>>, "none")
    ELSE Eff(Err("ValueError"), <<>>, <<>>, "none")

\* A materialisation that stops pulling once it has seen a second element.
drain_until_second(g) ==
    IF Len(g) <= 2
    THEN [taken |-> g, rest |-> <<>>]
    ELSE [taken |-> SubSeq(g, 1, 2), rest |-> SubSeq(g, 3, Len(g))]

\* val = [*val]: the generator is run to exhaustion.
drain(g) == [taken |-> g, rest |-> <<>>]

\* The length tests of the enforce branch, on a list of documents.
one_or_none(values, rest) ==
    IF Len(values) > 1
    THEN Eff(Err("MultipleValuesLavaException"), <<>>, rest, "none")
    ELSE IF Len(values) = 1
    THEN Eff(get_from_firestore_document(values[1]), <<values[1]>>, rest, "none")
    ELSE Eff(NoneRet, <<>>, rest, "none")

\* An enforce branch that takes a lone document as a result of length one.
func_enforce_lone_document(val) ==
    IF val.shape = "list"
    THEN one_or_none(val.items, <<>>)
    ELSE IF val.shape = "generator"
    THEN LET d == drain(val.items) IN one_or_none(d.taken, d.rest)
    ELSE IF val.shape = "document"
    THEN one_or_none(val.items, <<>>)
    ELSE Eff(Err("ValueError"), <<>>, <<>>, "none")

\* An enforce branch that converts the documents before it counts them.
func_enforce_convert_first(val) ==
    IF val.shape \in {"list", "generator"}
    THEN LET c == get_from_firestore_documents(val.items)
         IN  IF c.ret.kind = "error"
             THEN Eff(c.ret, c.validated, <<>>, "none")
             ELSE IF Len(c.ret.recs) > 1
             THEN Eff(Err("MultipleValuesLavaException"), c.validated, <<>>, "none")
             ELSE IF Len(c.ret.recs) = 1
             THEN Eff(Rec(c.ret.recs[1]), c.validated, <<>>, "none")
             ELSE Eff(NoneRet, <<>>, <<>>, "none")
    ELSE Eff(Err("ValueError"), <<>>, <<>>, "none")

\* func with enforce_one_or_none true: a list is counted as it is, a generator
\* after val = [*val]; anything else is a ValueError.
func_enforce(val) ==
    IF val.shape = "list"
    THEN one_or_none(val.items, <<>>)
    ELSE IF val.shape = "generator"
    THEN LET d == drain(val.items) IN one_or_none(d.taken, d.rest)
    ELSE Eff(Err("ValueError"), <<>>, <<>>, "none")

\* func: val = f(), then the branch the flag selects.
func(enforce_one_or_none, val) ==
    IF ~enforce_one_or_none THEN func_plain(val) ELSE func_enforce(val)

\* collection.where(field, "==", value).get(): the snapshots of the existing
\* documents whose field holds the string value, in id order.
Where(s, field, value) ==
    LET Match(id) == /\ s[id].exists
                     /\ Has(s[id].data, field)
                     /\ Get(s[id].data, field) = StrVal(value)
        ids == SelectSeq(IdOrder, Match)
    IN  [i \in 1..Len(ids) |-> Snapshot(s, ids[i])]

\* A lookup that answers with the first match when there are several.
get_one_or_none_where_first(s, param_check, param_value) ==
    LET values == Where(s, param_check, param_value)
    IN  IF Len(values) >= 1
        THEN Eff(get_from_firestore_document(values[1]), <<values[1]>>, <<>>, "none")
        ELSE Eff(NoneRet, <<>>, <<>>, "none")

\* get_one_or_none_where: the query, then the length tests.
get_one_or_none_where(s, param_check, param_value) ==
    LET values == Where(s, param_check, param_value)
    IN  IF Len(values) > 1
        THEN Eff(Err("MultipleValuesLavaException"), <<>>, <<>>, "none")
        ELSE IF Len(values) = 1
        THEN Eff(get_from_firestore_document(values[1]), <<values[1]>>, <<>>, "none")
        ELSE Eff(NoneRet, <<>>, <<>>, "none")

\* self.dict(): every field of the record, id included.
dict(r) == {<<"id", StrVal(r.id)>>, <<"name", StrVal(r.name)>>}

\* firedict: values = self.dict(); del values["id"].
firedict(r) == {p \in dict(r) : p[1] # "id"}

\* save: self._collection.document(self.id).set(self.to_dict()).  The argument
\* is evaluated before set() is called; neither the class nor pydantic's
\* BaseModel defines to_dict (the class defines firedict, pydantic dict), so
\* the lookup raises AttributeError and nothing is written.
save(s, r) == [store |-> s, ret |-> Err("AttributeError")]

\* Lists of document snapshots a data-access function may return.
DocLists(s) ==
    UNION {{[i \in 1..n |-> Snapshot(s, f[i])] : f \in [1..n -> Ids]} : n \in 0..MaxLen}

\* Values f() may return: a list, a generator, one document, or something else
\* (None, or a tuple holding a document).
Vals(s) ==
    {[shape |-> sh, items |-> l] : sh \in {"list", "generator"}, l \in DocLists(s)}
        \cup {[shape |-> "document", items |-> <<Snapshot(s, id)>>] : id \in Ids}
        \cup {[shape |-> "other", items |-> <<>>]}
        \cup {[shape |-> "other", items |-> <<Snapshot(s, id)>>] : id \in Ids}

Init ==
    /\ store \in [Ids -> DocStates]
    /\ call = [op |-> "init"]
    /\ ret = NoneRet
    /\ validated = <<>>
    /\ gen = <<>>
    /\ stream = "none"
    /\ pulled = <<>>

\* A call that returns: its outcome and effects replace those of the last one.
Returns(c, e) ==
    /\ call' = c
    /\ ret' = e.ret
    /\ validated' = e.validated
    /\ gen' = e.gen
    /\ stream' = e.stream
    /\ pulled' = <<>>
    /\ UNCHANGED store

CallGetFromFirestoreDocument ==
    \E id \in Ids :
        LET doc == Snapshot(store, id)
        IN  Returns([op |-> "get_from_firestore_document", doc |-> doc],
                    Eff(get_from_firestore_document(doc), <<doc>>, <<>>, "none"))

CallGetFromFirestoreDocuments ==
    \E docs \in DocLists(store) :
        LET c == get_from_firestore_documents(docs)
        IN  Returns([op |-> "get_from_firestore_documents", items |-> docs],
                    Eff(c.ret, c.validated, <<>>, "none"))

CallStreamFromFirestoreDocuments ==
    \E docs \in DocLists(store) :
        Returns([op |-> "stream_from_firestore_documents", items |-> docs],
                stream_from_firestore_documents(docs))

\* next() on the generator expression: the next document of the source is
\* converted; an exception, or the end of the source, finishes the generator.
Pull ==
    /\ stream # "none"
    /\ Len(pulled) <= MaxLen
    /\ IF stream = "open" /\ gen # <<>>
       THEN LET r == get_from_firestore_document(Head(gen))
            IN  /\ pulled' = Append(pulled, r)
                /\ validated' = Append(validated, Head(gen))
                /\ gen' = Tail(gen)
                /\ stream' = IF r.kind = "error" THEN "closed" ELSE "open"
       ELSE /\ pulled' = Append(pulled, Err("StopIteration"))
            /\ stream' = "closed"
            /\ UNCHANGED <<gen, validated>>
    /\ UNCHANGED <<store, call, ret>>

CallGetById ==
    \E id \in Ids :
        Returns([op |-> "get_by_id", id |-> id], get_by_id(store, id))

CallLavaified ==
    \E arg \in LavaifyArgs, val \in Vals(store) :
        Returns([op |-> "lavaify", enforce |-> lavaify(arg), val |-> val],
                func(lavaify(arg), val))

CallGetOneOrNoneWhere ==
    \E field \in {"id", "name"}, value \in StrVals \cup {"b"} :
        Returns([op |-> "get_one_or_none_where", field |-> field, value |-> value],
                get_one_or_none_where(store, field, value))

CallSave ==
    \E r \in Records :
        LET e == save(store, r)
        IN  /\ call' = [op |-> "save", rec |-> r]
            /\ store' = e.store
            /\ ret' = e.ret
            /\ validated' = <<>>
            /\ gen' = <<>>
            /\ stream' = "none"
            /\ pulled' = <<>>

CallFiredict ==
    \E r \in Records :
        Returns([op |-> "firedict", rec |-> r],
                Eff([kind |-> "mapping", map |-> firedict(r)], <<>>, <<>>, "none"))

Next ==
    \/ CallGetFromFirestoreDocument
    \/ CallGetFromFirestoreDocuments
    \/ CallStreamFromFirestoreDocuments
    \/ Pull
    \/ CallGetById
    \/ CallLavaified
    \/ CallGetOneOrNoneWhere
    \/ CallSave
    \/ CallFiredict

Spec == Init /\ [][Next]_vars

(***************************************************************************)
(* Properties.                                                             *)
(***************************************************************************)

\* A handle of an existing document whose mapping holds exactly the declared
\* field, with a str value.
ValidHandle(h) ==
    /\ h.exists
    /\ ~Has(h.data, "id")
    /\ <<"name", StrVal("v1")>> \in h.data \/ <<"name", StrVal("v2")>> \in h.data

\* The record a valid handle stands for.
RecordOf(h) ==
    [id |-> h.id, name |-> IF <<"name", StrVal("v1")>> \in h.data THEN "v1" ELSE "v2"]

\* The exceptions the construction of a record raises.
ConversionErrors == {"ValidationError", "TypeError"}

Min(a, b) == IF a <= b THEN a ELSE b

\* C1: save(r) followed at once by get_by_id(r.id) completes without error
\* and returns a record with r's id and r's fields.
C1_RoundTrip ==
    [][(call.op = "save" /\ call'.op = "get_by_id" /\ call'.id = call.rec.id)
         => (ret.kind # "error" /\ ret' = Rec(call.rec))]_vars

\* C2: after save(record) the store holds at key record.id the record's
\* fields without the id field, and so no id key.
C2_SaveWritesStorableMapping ==
    call.op = "save" =>
        /\ ret.kind # "error"
        /\ store[call.rec.id] = [exists |-> TRUE, data |-> {<<"name", StrVal(call.rec.name)>>}]
        /\ ~Has(store[call.rec.id].data, "id")

\* C3: with enforce_one_or_none true, a list or generator of 0 elements gives
\* None, of 1 valid element that element's record (no list), of 2 or more
\* MultipleValuesLavaException; a single document or any other value gives
\* ValueError.
C3_EnforceOutcome ==
    (call.op = "lavaify" /\ call.enforce) =>
        LET val == call.val
            n == Len(val.items)
        IN  IF val.shape \in {"list", "generator"}
            THEN /\ n = 0 => ret = NoneRet
                 /\ (n = 1 /\ ValidHandle(val.items[1])) => ret = Rec(RecordOf(val.items[1]))
                 /\ n >= 2 => ret = Err("MultipleValuesLavaException")
            ELSE ret = Err("ValueError")

C3_Witness ==
    /\ call.op = "lavaify"
    /\ call.enforce
    /\ call.val.shape = "document"
    /\ ValidHandle(call.val.items[1])
    /\ ret = Err("ValueError")

\* C4: with enforce_one_or_none false, a list of n valid documents gives their
\* n records in order, a single valid document its one record (no list), a
\* generator a lazy sequence, any other value ValueError.
C4_PlainOutcome ==
    (call.op = "lavaify" /\ ~call.enforce) =>
        LET val == call.val
            n == Len(val.items)
        IN  /\ (val.shape = "list" /\ \A i \in 1..n : ValidHandle(val.items[i]))
                => /\ ret.kind = "list"
                   /\ Len(ret.recs) = n
                   /\ \A i \in 1..n : ret.recs[i] = RecordOf(val.items[i])
            /\ (val.shape = "document" /\ ValidHandle(val.items[1]))
                => ret = Rec(RecordOf(val.items[1]))
            /\ val.shape = "generator" => (ret = StreamRet /\ stream # "none")
            /\ val.shape = "other" => ret = Err("ValueError")

C4_Witness ==
    /\ call.op = "lavaify"
    /\ ~call.enforce
    /\ call.val.shape = "list"
    /\ Len(call.val.items) = 3
    /\ call.val.items[1] # call.val.items[2]
    /\ ret.kind = "list"

\* C5: for a handle of an existing document whose mapping satisfies the schema
\* the record has the handle's id and the mapping's fields; no record is made
\* whose id differs from the handle's, also when the mapping carries an id key.
C5_IdFromHandle ==
    call.op = "get_from_firestore_document" =>
        /\ ValidHandle(call.doc) => ret = Rec(RecordOf(call.doc))
        /\ ret.kind = "record" => ret.rec.id = call.doc.id
        /\ ret.kind \in {"record", "error"}

C5_Witness ==
    /\ call.op = "get_from_firestore_document"
    /\ ValidHandle(call.doc)
    /\ ret = Rec([id |-> call.doc.id, name |-> "v2"])

\* The documents the equality query matches.
Matches(field, value) ==
    {id \in Ids : store[id].exists /\ <<field, StrVal(value)>> \in store[id].data}

\* C6: get_one_or_none_where with k matching documents: k = 0 gives None,
\* k = 1 the conversion of that document, k > 1 MultipleValuesLavaException.
C6_WhereOutcome ==
    call.op = "get_one_or_none_where" =>
        LET m == Matches(call.field, call.value)
            k == Cardinality(m)
        IN  /\ k = 0 => ret = NoneRet
            /\ k = 1 =>
                 LET h == Snapshot(store, CHOOSE id \in m : TRUE)
                 IN  IF ValidHandle(h)
                     THEN ret = Rec(RecordOf(h))
                     ELSE ret.kind = "error" /\ ret.error \in ConversionErrors
            /\ k > 1 => ret = Err("MultipleValuesLavaException")

C6_Witness ==
    /\ call.op = "get_one_or_none_where"
    /\ Cardinality(Matches(call.field, call.value)) = 2
    /\ ret = Err("MultipleValuesLavaException")

\* C7: get_from_firestore_documents gives, when every handle converts, the
\* records of the handles in order and in the same number; when one does not,
\* an error and no records.
C7_AllOrNothing ==
    call.op = "get_from_firestore_documents" =>
        LET docs == call.items
            n == Len(docs)
        IN  IF \A i \in 1..n : ValidHandle(docs[i])
            THEN /\ ret.kind = "list"
                 /\ Len(ret.recs) = n
                 /\ \A i \in 1..n : ret.recs[i] = RecordOf(docs[i])
            ELSE /\ ret.kind = "error"
                 /\ ret.error \in ConversionErrors
                 /\ (\A i \in 1..n : docs[i].exists /\ ~Has(docs[i].data, "id"))
                        => ret.error = "ValidationError"

C7_Witness ==
    /\ call.op = "get_from_firestore_documents"
    /\ Len(call.items) = 3
    /\ ValidHandle(call.items[1])
    /\ ValidHandle(call.items[2])
    /\ ~ValidHandle(call.items[3])
    /\ ret = Err("ValidationError")

\* The call that returned the lazy sequence, and the handles it ranges over.
StreamCall ==
    \/ call.op = "stream_from_firestore_documents"
    \/ call.op = "lavaify" /\ ~call.enforce /\ call.val.shape = "generator"

StreamItems ==
    IF call.op = "stream_from_firestore_documents" THEN call.items ELSE call.val.items

\* The index of the first handle that does not convert, or one past the end.
FirstInvalid(items) ==
    IF \E i \in 1..Len(items) : ~ValidHandle(items[i])
    THEN CHOOSE i \in 1..Len(items) :
            ~ValidHandle(items[i]) /\ \A j \in 1..(i - 1) : ValidHandle(items[j])
    ELSE Len(items) + 1

\* C8: the lazy sequence converts on pull only: returning it converts nothing,
\* each pull before the first invalid handle k delivers that handle's
\* record, and the error surfaces at pull k.
C8_LazyConversion ==
    StreamCall =>
        LET items == StreamItems
            k == FirstInvalid(items)
            n == Len(pulled)
        IN  /\ ret = StreamRet
            /\ Len(validated) = Min(n, Min(k, Len(items)))
            /\ \A i \in 1..Len(validated) : validated[i] = items[i]
            /\ \A i \in 1..n :
                 IF i < k /\ i <= Len(items)
                 THEN pulled[i] = Rec(RecordOf(items[i]))
                 ELSE IF i = k /\ i <= Len(items)
                 THEN pulled[i].kind = "error" /\ pulled[i].error \in ConversionErrors
                 ELSE pulled[i] = Err("StopIteration")

C8_Witness ==
    /\ StreamCall
    /\ Len(StreamItems) = 3
    /\ FirstInvalid(StreamItems) = 2
    /\ Len(pulled) = 2
    /\ pulled[1].kind = "record"
    /\ pulled[2].kind = "error"

\* C9: with enforce_one_or_none true and a generator, the outcome is decided
\* only after the generator is exhausted.
C9_DrainedBeforeDecision ==
    (call.op = "lavaify" /\ call.enforce /\ call.val.shape = "generator") =>
        /\ gen = <<>>
        /\ stream = "none"
        /\ ret.kind \in {"record", "none", "error"}

C9_Witness ==
    /\ call.op = "lavaify"
    /\ call.enforce
    /\ call.val.shape = "generator"
    /\ Len(call.val.items) = 3
    /\ ret = Err("MultipleValuesLavaException")
    /\ gen = <<>>

\* The size of the result a cardinality-constrained call counted.
Counted ==
    IF call.op = "get_one_or_none_where"
    THEN Cardinality(Matches(call.field, call.value))
    ELSE Len(call.val.items)

ConstrainedCall ==
    \/ call.op = "get_one_or_none_where"
    \/ call.op = "lavaify" /\ call.enforce /\ call.val.shape \in {"list", "generator"}

\* C10: in the cardinality-constrained paths a result of more than one
\* element is never converted and fails with MultipleValuesLavaException; a
\* conversion error needs a result of exactly one element.
C10_CountBeforeConversion ==
    ConstrainedCall =>
        /\ Counted > 1 => (validated = <<>> /\ ret = Err("MultipleValuesLavaException"))
        /\ (ret.kind = "error" /\ ret.error \in ConversionErrors) => Counted = 1
        /\ validated # <<>> => Counted = 1

C10_Witness ==
    /\ call.op = "lavaify"
    /\ call.enforce
    /\ call.val.shape = "list"
    /\ Len(call.val.items) = 2
    /\ ~ValidHandle(call.val.items[1])
    /\ ~ValidHandle(call.val.items[2])
    /\ validated = <<>>
    /\ ret = Err("MultipleValuesLavaException")

====
